---- MODULE Spec2Model ----
(***************************************************************************)
(* Model of EscrowServiceContract (src/src/freelance.rs): the instance     *)
(* storage (projects, escrows and their counters) and the five contract    *)
(* entry points post_project, initiate_escrow, deposit_funds,              *)
(* release_funds and refund_funds.  Every entry point is one atomic step.  *)
(* The variable `last` holds the call just made with its return value and  *)
(* `pre` the storage as it was before that call.  Spec follows the first   *)
(* project and its escrow with the full range of inputs: every entry point *)
(* reads and writes only the records whose ids it is given.  SpecTwo lets  *)
(* two projects and two escrows exist, with fewer inputs, for the          *)
(* properties that relate one escrow to another.                           *)
(***************************************************************************)
EXTENDS Integers, Sequences, FiniteSets, TLC

\* ---- bounds of the model -------------------------------------------------
MaxBudget     == 2     \* largest budget passed to post_project
MaxAmount     == 1     \* largest amount of a milestone, largest deposit
MaxMilestones == 2     \* longest milestone list passed to post_project
MaxReleased   == 2     \* deposit_funds is not called beyond this released_amount

\* ---- addresses -----------------------------------------------------------
\* env.accounts().is_valid_address(..) accepts exactly ValidAddresses.
ValidAddresses == {"alice", "bob", "carol"}
Addresses      == ValidAddresses \cup {"nobody"}

\* addresses are opaque to the contract (it only compares them): alice
\* posts the project and bob is hired, carol is a recognised third party
Posters     == {"alice", "nobody"}
Freelancers == {"bob"}

is_valid_address(a) == a \in ValidAddresses

\* ---- types ---------------------------------------------------------------
ProjectStatus == {"Open", "InProgress", "Completed", "Cancelled"}
EscrowState   == {"Created", "InProgress", "Completed", "Refunded"}

\* struct Milestone (description and deadline are opaque to the contract);
\* projects are posted with a budget and milestone amounts of at least 1
Milestone == [amount : 1..MaxAmount, completed : BOOLEAN]

MilestoneLists == UNION {[1..n -> Milestone] : n \in 0..MaxMilestones}

VARIABLES
    ProjectCount,   \* StorageKey::ProjectCount (0 when absent)
    Projects,       \* StorageKey::Projects(id) -> Project
    EscrowCount,    \* StorageKey::EscrowCount (0 when absent)
    Escrows,        \* StorageKey::Escrows(id) -> Escrow
    last,           \* the call just made and what it returned
    pre             \* storage and call record before the call in `last`

store == <<ProjectCount, Projects, EscrowCount, Escrows>>
vars  == <<ProjectCount, Projects, EscrowCount, Escrows, last, pre>>

NoCall ==
    [op |-> "none", from |-> "nobody", id |-> 0, arg |-> 0, result |-> "Ok",
     again |-> FALSE]

\* `again`: the call before this one was the same call (entry point and
\* arguments) and it returned Ok
Call(op, from, id, arg, result) ==
    [op |-> op, from |-> from, id |-> id, arg |-> arg, result |-> result,
     again |-> /\ last.op = op
               /\ last.from = from
               /\ last.id = id
               /\ last.arg = arg
               /\ last.result = "Ok"]

\* the storage as a record, kept in `pre` for the call that follows
Snapshot ==
    [ProjectCount |-> ProjectCount, Projects |-> Projects,
     EscrowCount |-> EscrowCount, Escrows |-> Escrows]

\* a call that fails after the escrow counter was already advanced
RejectAfterCount(op, from, id, arg, err) ==
    /\ last' = Call(op, from, id, arg, err)
    /\ pre' = Snapshot
    /\ EscrowCount' = EscrowCount + 1
    /\ UNCHANGED <<ProjectCount, Projects, Escrows>>

\* a call that returns Err(..): nothing is written
Reject(op, from, id, arg, err) ==
    /\ last' = Call(op, from, id, arg, err)
    /\ pre' = Snapshot
    /\ UNCHANGED store

Init ==
    /\ ProjectCount = 0
    /\ Projects = <<>>
    /\ EscrowCount = 0
    /\ Escrows = <<>>
    /\ last = NoCall
    /\ pre = [ProjectCount |-> 0, Projects |-> <<>>, EscrowCount |-> 0,
              Escrows |-> <<>>]

\* a write that lands on the first escrow whatever the id
WriteFirstEscrow(escrows, escrow_id, escrow) ==
    (1 :> escrow) @@ escrows

\* env.storage().instance().set(&StorageKey::Escrows(escrow_id), &escrow)
\* in deposit_funds, release_funds and refund_funds
WriteEscrow(escrows, escrow_id, escrow) ==
    (escrow_id :> escrow) @@ escrows

\* ---- post_project --------------------------------------------------------
NewProject(id, from, budget, milestones) ==
    [id |-> id, client |-> from, budget |-> budget,
     milestones |-> milestones, status |-> "Open"]

post_project(from, budget, milestones) ==
    IF ~is_valid_address(from)
      THEN Reject("post_project", from, 0, <<budget, milestones>>, "InvalidAddress")
      ELSE /\ Projects' = (ProjectCount + 1 :> NewProject(ProjectCount + 1, from, budget, milestones))
                             @@ Projects
           /\ ProjectCount' = ProjectCount + 1
           /\ last' = Call("post_project", from, 0, <<budget, milestones>>, "Ok")
           /\ pre' = Snapshot
           /\ UNCHANGED <<EscrowCount, Escrows>>

\* ---- initiate_escrow -----------------------------------------------------
NewEscrow(project, project_id, freelancer) ==
    [project_id |-> project_id, client |-> project.client,
     freelancer |-> freelancer, total_amount |-> project.budget,
     milestones |-> project.milestones, released_amount |-> 0,
     state |-> "Created"]

\* initiate_escrow without the check of the project status
InitiateErrorAnyStatus(from, project_id) ==
    IF ~is_valid_address(from) THEN "InvalidAddress"
    ELSE IF project_id \notin DOMAIN Projects THEN "Unauthorized"
    ELSE IF Projects[project_id].client # from THEN "Unauthorized"
    ELSE "Ok"

InitiateError(from, project_id) ==
    IF ~is_valid_address(from) THEN "InvalidAddress"
    ELSE IF project_id \notin DOMAIN Projects THEN "Unauthorized"
    ELSE IF Projects[project_id].client # from THEN "Unauthorized"
    ELSE IF Projects[project_id].status # "Open" THEN "NotOpen"
    ELSE "Ok"

\* an allocation that never sees the counter it wrote
AllocateFirstEscrowId(count) == 1

\* get(EscrowCount).unwrap_or(0) + 1
AllocateEscrowId(count) == count + 1

initiate_escrow(from, project_id, freelancer) ==
    LET err == InitiateError(from, project_id) IN
    IF err # "Ok"
      THEN Reject("initiate_escrow", from, project_id, freelancer, err)
      ELSE LET escrow_id == AllocateEscrowId(EscrowCount) IN
           /\ Escrows' = (escrow_id :> NewEscrow(Projects[project_id], project_id, freelancer))
                           @@ Escrows
           /\ EscrowCount' = escrow_id
           /\ Projects' = [Projects EXCEPT ![project_id].status = "InProgress"]
           /\ last' = Call("initiate_escrow", from, project_id, freelancer, "Ok")
           /\ pre' = Snapshot
           /\ UNCHANGED ProjectCount

\* ---- deposit_funds -------------------------------------------------------
\* deposit_funds without the check of the caller
DepositAuthorizedAnyone(escrow, from) == TRUE

DepositAuthorized(escrow, from) ==
    escrow.client = from \/ escrow.freelancer = from

\* the checks of deposit_funds against the stored escrows
DepositErrorIn(escrows, from, escrow_id) ==
    IF ~is_valid_address(from) THEN "InvalidAddress"
    ELSE IF escrow_id \notin DOMAIN escrows THEN "NotFound"
    ELSE IF ~DepositAuthorized(escrows[escrow_id], from) THEN "Unauthorized"
    ELSE "Ok"

DepositError(from, escrow_id) == DepositErrorIn(Escrows, from, escrow_id)

\* a deposit booked on total_amount instead of released_amount
DepositUpdateTotal(escrow, amount) ==
    [escrow EXCEPT !.total_amount = @ + amount]

\* released_amount is a u64; MaxReleased keeps the sums far below 2^64
DepositUpdate(escrow, amount) ==
    LET released == escrow.released_amount + amount IN
    [escrow EXCEPT !.released_amount = released,
                   !.state = IF released = escrow.total_amount
                               THEN "InProgress" ELSE @]

deposit_funds(from, escrow_id, amount) ==
    LET err == DepositError(from, escrow_id) IN
    IF err # "Ok"
      THEN Reject("deposit_funds", from, escrow_id, amount, err)
      ELSE /\ Escrows[escrow_id].released_amount + amount <= MaxReleased
           /\ Escrows' = WriteEscrow(Escrows, escrow_id,
                                     DepositUpdate(Escrows[escrow_id], amount))
           /\ last' = Call("deposit_funds", from, escrow_id, amount, "Ok")
           /\ pre' = Snapshot
           /\ UNCHANGED <<ProjectCount, Projects, EscrowCount>>

\* ---- release_funds -------------------------------------------------------
RECURSIVE SumOver(_, _)
\* sum of the amounts of the milestones at the positions in S
SumOver(milestones, S) ==
    IF S = {} THEN 0
    ELSE LET i == CHOOSE i \in S : TRUE IN
         milestones[i].amount + SumOver(milestones, S \ {i})

\* the sum taken up to and including the milestone being released
SumThrough(milestones, milestone_index) ==
    SumOver(milestones, 1..(milestone_index + 1))

RECURSIVE SumBefore(_, _)
\* sum of milestones[0..milestone_index-1].amount (the list is 1-based here)
SumBefore(milestones, milestone_index) ==
    IF milestone_index = 0 THEN 0
    ELSE SumBefore(milestones, milestone_index - 1) + milestones[milestone_index].amount

\* the checks of release_funds on the escrow record it has read
ReleaseErrorOn(escrow, milestone_index) ==
    IF milestone_index >= Len(escrow.milestones) THEN "InvalidMilestoneIndex"
    ELSE IF ~escrow.milestones[milestone_index + 1].completed THEN "MilestoneNotReady"
    ELSE IF escrow.released_amount < SumBefore(escrow.milestones, milestone_index)
           THEN "InsufficientFunds"
    ELSE "Ok"

\* the checks of release_funds against the stored escrows
ReleaseErrorIn(escrows, from, escrow_id, milestone_index) ==
    IF ~is_valid_address(from) THEN "InvalidAddress"
    ELSE IF escrow_id \notin DOMAIN escrows THEN "NotFound"
    ELSE ReleaseErrorOn(escrows[escrow_id], milestone_index)

ReleaseError(from, escrow_id, milestone_index) ==
    ReleaseErrorIn(Escrows, from, escrow_id, milestone_index)

ReleaseUpdate(escrow, milestone_index) ==
    LET released == SumBefore(escrow.milestones, milestone_index) IN
    [escrow EXCEPT !.released_amount = released,
                   !.state = IF released = escrow.total_amount
                               THEN "Completed" ELSE @]

release_funds(from, escrow_id, milestone_index) ==
    LET err == ReleaseError(from, escrow_id, milestone_index) IN
    IF err # "Ok"
      THEN Reject("release_funds", from, escrow_id, milestone_index, err)
      ELSE /\ Escrows' = WriteEscrow(Escrows, escrow_id,
                                     ReleaseUpdate(Escrows[escrow_id], milestone_index))
           /\ last' = Call("release_funds", from, escrow_id, milestone_index, "Ok")
           /\ pre' = Snapshot
           /\ UNCHANGED <<ProjectCount, Projects, EscrowCount>>

\* ---- refund_funds --------------------------------------------------------
\* refund_funds without the check of the state
RefundableAlways(escrow) == TRUE

Refundable(escrow) == escrow.state = "Created"

\* the checks of refund_funds against the stored escrows
RefundErrorIn(escrows, from, escrow_id) ==
    IF ~is_valid_address(from) THEN "InvalidAddress"
    ELSE IF escrow_id \notin DOMAIN escrows THEN "NotFound"
    ELSE IF ~Refundable(escrows[escrow_id]) THEN "InvalidState"
    ELSE "Ok"

RefundError(from, escrow_id) == RefundErrorIn(Escrows, from, escrow_id)

\* a refund that also takes back what was accounted
RefundUpdateClawback(escrow) ==
    [escrow EXCEPT !.state = "Refunded", !.released_amount = 0]

RefundUpdate(escrow) == [escrow EXCEPT !.state = "Refunded"]

refund_funds(from, escrow_id) ==
    LET err == RefundError(from, escrow_id) IN
    IF err # "Ok"
      THEN Reject("refund_funds", from, escrow_id, 0, err)
      ELSE /\ Escrows' = WriteEscrow(Escrows, escrow_id, RefundUpdate(Escrows[escrow_id]))
           /\ last' = Call("refund_funds", from, escrow_id, 0, "Ok")
           /\ pre' = Snapshot
           /\ UNCHANGED <<ProjectCount, Projects, EscrowCount>>

\* ---- the contract --------------------------------------------------------
\* ids post_project allocates here, and the ids the callers pass (one of
\* them is never allocated)
FirstProjects == {1}
ProjectIds == FirstProjects \cup {Cardinality(FirstProjects) + 1}
EscrowIds  == ProjectIds

PostProject ==
    /\ ProjectCount + 1 \in FirstProjects
    /\ \E from \in Posters, budget \in 1..MaxBudget, milestones \in MilestoneLists :
        post_project(from, budget, milestones)

InitiateEscrow ==
    \E from \in Addresses, project_id \in ProjectIds, freelancer \in Freelancers :
        initiate_escrow(from, project_id, freelancer)

DepositFunds ==
    \E from \in Addresses, escrow_id \in EscrowIds, amount \in 0..MaxAmount :
        deposit_funds(from, escrow_id, amount)

ReleaseFunds ==
    \E from \in Addresses, escrow_id \in EscrowIds, milestone_index \in 0..MaxMilestones :
        release_funds(from, escrow_id, milestone_index)

RefundFunds ==
    \E from \in Addresses, escrow_id \in EscrowIds :
        refund_funds(from, escrow_id)

Next == PostProject \/ InitiateEscrow \/ DepositFunds \/ ReleaseFunds \/ RefundFunds

Spec == Init /\ [][Next]_vars

TypeOK ==
    /\ ProjectCount \in 0..Cardinality(FirstProjects)
    /\ EscrowCount \in 0..ProjectCount
    /\ DOMAIN Projects = 1..ProjectCount
    /\ DOMAIN Escrows = 1..EscrowCount
    /\ \A e \in DOMAIN Escrows : Escrows[e].state \in EscrowState
    /\ \A p \in DOMAIN Projects : Projects[p].status \in ProjectStatus

\* ---- two projects ---------------------------------------------------------
\* The same entry points with two projects and their escrows, called with
\* fewer shapes of project: alice and carol post, the budget is 1, the
\* milestone list is empty or has two milestones of 1.
TwoProjects == {1, 2}
TwoIds      == TwoProjects
TwoPosters  == {"alice", "carol"}
TwoLists    ==
    {<<>>, <<[amount |-> 1, completed |-> FALSE], [amount |-> 1, completed |-> TRUE]>>}
TwoAmounts  == {0, 1}
TwoIndexes  == {0, 1, 2}

PostProjectTwo ==
    /\ ProjectCount + 1 \in TwoProjects
    /\ \E from \in TwoPosters, milestones \in TwoLists :
        post_project(from, 1, milestones)

InitiateEscrowTwo ==
    \E from \in Addresses, project_id \in TwoIds, freelancer \in Freelancers :
        initiate_escrow(from, project_id, freelancer)

DepositFundsTwo ==
    \E from \in Addresses, escrow_id \in TwoIds, amount \in TwoAmounts :
        deposit_funds(from, escrow_id, amount)

ReleaseFundsTwo ==
    \E from \in Addresses, escrow_id \in TwoIds, milestone_index \in TwoIndexes :
        release_funds(from, escrow_id, milestone_index)

RefundFundsTwo ==
    \E from \in Addresses, escrow_id \in TwoIds :
        refund_funds(from, escrow_id)

NextTwo ==
    PostProjectTwo \/ InitiateEscrowTwo \/ DepositFundsTwo \/ ReleaseFundsTwo \/ RefundFundsTwo

SpecTwo == Init /\ [][NextTwo]_vars

\* ---- properties ----------------------------------------------------------
Terminal == {"Completed", "Refunded"}

\* the call in `last` addressed an escrow that was stored before the call
OnStored(op) == last.op = op /\ last.id \in DOMAIN pre.Escrows

StoreUnchanged ==
    /\ ProjectCount = pre.ProjectCount
    /\ Projects = pre.Projects
    /\ EscrowCount = pre.EscrowCount
    /\ Escrows = pre.Escrows

\* C1: every stored escrow satisfies 0 <= released_amount <= total_amount.
C1_ReleasedWithinTotal ==
    \A e \in DOMAIN Escrows :
        /\ 0 <= Escrows[e].released_amount
        /\ Escrows[e].released_amount <= Escrows[e].total_amount

\* C2: the state of an escrow only moves forward: once it has left Created
\* it is never Created again, and once it is Completed or Refunded it never
\* changes.
C2_StateOnlyForward ==
    [][\A e \in DOMAIN Escrows :
          /\ Escrows[e].state # "Created" => Escrows'[e].state # "Created"
          /\ Escrows[e].state \in Terminal => Escrows'[e].state = Escrows[e].state]_vars

\* C3: every deposit_funds and every release_funds call on an escrow whose
\* state is Completed or Refunded returns an error and leaves the stored
\* record unchanged.
C3_TerminalSticky ==
    (/\ OnStored("deposit_funds") \/ OnStored("release_funds")
     /\ pre.Escrows[last.id].state \in Terminal)
        => /\ last.result # "Ok"
           /\ Escrows[last.id] = pre.Escrows[last.id]

\* C4: no call, successful or failed, makes the released_amount of an escrow
\* smaller than it was before the call.
C4_ReleasedMonotonic ==
    \A e \in DOMAIN pre.Escrows :
        Escrows[e].released_amount >= pre.Escrows[e].released_amount

\* C5: release_funds called by anyone other than the escrow's client is
\* rejected with the unauthorized error and the stored record is the same
\* before and after, whatever the milestone index and the completed flags.
C5_ReleaseOnlyByClient ==
    (/\ OnStored("release_funds")
     /\ last.from # pre.Escrows[last.id].client)
        => /\ last.result = "Unauthorized"
           /\ Escrows[last.id] = pre.Escrows[last.id]

\* C6: refund_funds called by anyone other than the escrow's client is
\* rejected with the unauthorized error and the stored record is the same
\* before and after, in every escrow state.
C6_RefundOnlyByClient ==
    (/\ OnStored("refund_funds")
     /\ last.from # pre.Escrows[last.id].client)
        => /\ last.result = "Unauthorized"
           /\ Escrows[last.id] = pre.Escrows[last.id]

Outsider(escrow, from) == from # escrow.client /\ from # escrow.freelancer

\* C7 as stated: deposit_funds by an actor that is neither client nor
\* freelancer returns the unauthorized error, deposit_funds on an id that was
\* never created returns the not-found error, and neither stores anything.
C7_DepositRejections ==
    last.op = "deposit_funds" =>
        /\ (/\ last.id \in DOMAIN pre.Escrows
            /\ Outsider(pre.Escrows[last.id], last.from))
              => last.result = "Unauthorized" /\ StoreUnchanged
        /\ last.id \notin DOMAIN pre.Escrows
              => last.result = "NotFound" /\ StoreUnchanged

\* C7 (amended): the same for an actor whose address is_valid_address
\* accepts; an actor whose address it does not accept is rejected with the
\* invalid-address error before the escrow is looked up, and nothing is
\* stored either.
C7_DepositRejectionsValidActor ==
    last.op = "deposit_funds" =>
        /\ (/\ last.id \in DOMAIN pre.Escrows
            /\ Outsider(pre.Escrows[last.id], last.from))
              => /\ last.result = IF is_valid_address(last.from)
                                    THEN "Unauthorized" ELSE "InvalidAddress"
                 /\ StoreUnchanged
        /\ last.id \notin DOMAIN pre.Escrows
              => /\ last.result = IF is_valid_address(last.from)
                                    THEN "NotFound" ELSE "InvalidAddress"
                 /\ StoreUnchanged

\* a recognised third party was turned away from a stored escrow
C7_Witness ==
    /\ OnStored("deposit_funds")
    /\ is_valid_address(last.from)
    /\ Outsider(pre.Escrows[last.id], last.from)
    /\ last.result = "Unauthorized"
    /\ pre.Escrows[last.id].state = "Created"

\* C8: the state of an escrow changes only along Created -> InProgress by
\* deposit_funds, Created -> Refunded by refund_funds and InProgress ->
\* Completed by release_funds, each called on that escrow.
Edges ==
    {<<"Created", "InProgress", "deposit_funds">>,
     <<"Created", "Refunded", "refund_funds">>,
     <<"InProgress", "Completed", "release_funds">>}

C8_ThreeEdges ==
    \A e \in DOMAIN pre.Escrows :
        Escrows[e].state # pre.Escrows[e].state
            => /\ <<pre.Escrows[e].state, Escrows[e].state, last.op>> \in Edges
               /\ last.id = e

\* C9: after a successful release_funds(escrow, k) every milestone whose
\* amount is counted in the new released_amount (the milestones before k
\* that have an amount) has completed = TRUE.
C9_OnlyCompletedCounted ==
    (OnStored("release_funds") /\ last.result = "Ok")
        => \A i \in 1..last.arg :
               Escrows[last.id].milestones[i].amount > 0
                   => Escrows[last.id].milestones[i].completed

\* C10: refund_funds by the client on a Created escrow succeeds; the same
\* call made again right after it fails with the invalid-state error and
\* leaves the record as the first call left it.
ByClient(op) == OnStored(op) /\ last.from = pre.Escrows[last.id].client

C10_RefundTwice ==
    /\ (ByClient("refund_funds") /\ pre.Escrows[last.id].state = "Created")
          => /\ last.result = "Ok"
             /\ Escrows[last.id] = [pre.Escrows[last.id] EXCEPT !.state = "Refunded"]
    /\ (ByClient("refund_funds") /\ last.again)
          => /\ last.result = "InvalidState"
             /\ pre.Escrows[last.id].state = "Refunded"
             /\ Escrows = pre.Escrows

\* the second of two refund_funds calls by the client has returned
C10_Witness ==
    /\ ByClient("refund_funds")
    /\ last.again
    /\ last.result = "InvalidState"
    /\ Escrows[last.id].state = "Refunded"

\* C11 as stated: refund_funds succeeds only on a Created escrow; in any
\* other state it returns the invalid-state error and changes nothing; on
\* success only the state changes, to Refunded.
C11_RefundOnlyFromCreated ==
    OnStored("refund_funds") =>
        /\ pre.Escrows[last.id].state # "Created"
              => last.result = "InvalidState" /\ StoreUnchanged
        /\ last.result = "Ok"
              => /\ pre.Escrows[last.id].state = "Created"
                 /\ Escrows[last.id] = [pre.Escrows[last.id] EXCEPT !.state = "Refunded"]

\* C11 (amended): the same for a caller whose address is_valid_address
\* accepts; any other caller gets the invalid-address error, whatever the
\* state, and nothing changes.
C11_RefundOnlyFromCreatedValidActor ==
    OnStored("refund_funds") =>
        /\ pre.Escrows[last.id].state # "Created"
              => /\ last.result = IF is_valid_address(last.from)
                                    THEN "InvalidState" ELSE "InvalidAddress"
                 /\ StoreUnchanged
        /\ last.result = "Ok"
              => /\ pre.Escrows[last.id].state = "Created"
                 /\ Escrows[last.id] = [pre.Escrows[last.id] EXCEPT !.state = "Refunded"]

\* a refund of a partly accounted Created escrow has succeeded
C11_Witness ==
    /\ OnStored("refund_funds")
    /\ last.result = "Ok"
    /\ pre.Escrows[last.id].state = "Created"
    /\ Escrows[last.id].released_amount > 0

\* C12: a successful deposit_funds adds exactly amount to released_amount
\* and moves the state to InProgress if and only if the new released_amount
\* equals total_amount and the state was Created; otherwise the state stays.
C12_DepositEffect ==
    (OnStored("deposit_funds") /\ last.result = "Ok") =>
        LET before == pre.Escrows[last.id]
            after  == Escrows[last.id]
        IN  /\ after.released_amount = before.released_amount + last.arg
            /\ after.state =
                 IF after.released_amount = after.total_amount /\ before.state = "Created"
                   THEN "InProgress" ELSE before.state

\* C13: release_funds(client, id, k) fails with out-of-range, not-ready or
\* insufficient-funds in that order of checks; otherwise it succeeds, sets
\* released_amount to the sum of the amounts of milestones 0..k-1 and sets
\* the state to Completed exactly when that sum equals total_amount.
C13_ReleaseByClient ==
    ByClient("release_funds") =>
        LET before == pre.Escrows[last.id]
            k      == last.arg
            sum    == SumOver(before.milestones, 1..k)
        IN  /\ last.result =
                 IF k >= Len(before.milestones) THEN "InvalidMilestoneIndex"
                 ELSE IF ~before.milestones[k + 1].completed THEN "MilestoneNotReady"
                 ELSE IF before.released_amount < sum THEN "InsufficientFunds"
                 ELSE "Ok"
            /\ last.result = "Ok" =>
                 Escrows[last.id] =
                     [before EXCEPT !.released_amount = sum,
                                    !.state = IF sum = before.total_amount
                                                THEN "Completed" ELSE @]

\* the client has released the second milestone of a funded escrow
C13_Witness ==
    /\ ByClient("release_funds")
    /\ last.result = "Ok"
    /\ last.arg = 1
    /\ Escrows[last.id].released_amount = 1
    /\ pre.Escrows[last.id].released_amount = 2

\* C15: a call that returns an error leaves all escrow records, all project
\* records and both counters as they were.
C15_ErrorsWriteNothing ==
    last.result # "Ok" => StoreUnchanged

\* a release was refused for insufficient funds on a stored escrow
C15_Witness ==
    /\ OnStored("release_funds")
    /\ last.result = "InsufficientFunds"
    /\ StoreUnchanged

\* C16: the amounts of the milestones of a stored escrow sum to at most its
\* total_amount.
C16_MilestonesWithinTotal ==
    \A e \in DOMAIN Escrows :
        SumOver(Escrows[e].milestones, DOMAIN Escrows[e].milestones)
            <= Escrows[e].total_amount

EscrowOps == {"deposit_funds", "release_funds", "refund_funds"}

InitiatedOk == last.op = "initiate_escrow" /\ last.result = "Ok"

\* C14: a successful initiate_escrow stores one new record under an id no
\* escrow had, leaves the escrows stored before as they were, and the new
\* record is Created with released_amount 0, the caller as client and the
\* milestones of the project; the counter is the number of escrows and the
\* ids 1..counter are the stored ones.
C14_FreshEscrowIds ==
    /\ DOMAIN Escrows = 1..EscrowCount
    /\ InitiatedOk =>
         /\ EscrowCount = pre.EscrowCount + 1
         /\ EscrowCount \notin DOMAIN pre.Escrows
         /\ \A e \in DOMAIN pre.Escrows : Escrows[e] = pre.Escrows[e]
         /\ Escrows[EscrowCount].state = "Created"
         /\ Escrows[EscrowCount].released_amount = 0
         /\ Escrows[EscrowCount].client = last.from
         /\ Escrows[EscrowCount].milestones = pre.Projects[last.id].milestones

\* a second escrow was created next to one that already accounted funds
C14_Witness ==
    /\ InitiatedOk
    /\ EscrowCount = 2
    /\ Escrows[1].released_amount > 0
    /\ Escrows[2].client # Escrows[1].client

\* C17: deposit_funds, release_funds and refund_funds on escrow e leave the
\* projects, the counters and every other escrow as they were, and change
\* nothing of e but released_amount and state.
C17_FrameOfEscrowCalls ==
    last.op \in EscrowOps =>
        /\ ProjectCount = pre.ProjectCount
        /\ Projects = pre.Projects
        /\ EscrowCount = pre.EscrowCount
        /\ DOMAIN Escrows = DOMAIN pre.Escrows
        /\ \A e \in DOMAIN Escrows :
             IF e = last.id
               THEN Escrows[e] =
                      [pre.Escrows[e] EXCEPT !.released_amount = Escrows[e].released_amount,
                                             !.state = Escrows[e].state]
               ELSE Escrows[e] = pre.Escrows[e]

\* a deposit changed the second escrow while the first one holds funds
C17_Witness ==
    /\ last.op = "deposit_funds"
    /\ last.result = "Ok"
    /\ last.id = 2
    /\ Escrows[2] # pre.Escrows[2]
    /\ Escrows[1].released_amount > 0

\* C20: no two stored escrows have the same project_id, a project with an
\* escrow is not Open, and initiate_escrow succeeds only for the client of
\* an Open project, which it leaves InProgress.
C20_OneEscrowPerProject ==
    /\ \A e1, e2 \in DOMAIN Escrows :
         e1 # e2 => Escrows[e1].project_id # Escrows[e2].project_id
    /\ \A e \in DOMAIN Escrows :
         /\ Escrows[e].project_id \in DOMAIN Projects
         /\ Projects[Escrows[e].project_id].status # "Open"
    /\ InitiatedOk =>
         /\ pre.Projects[last.id].client = last.from
         /\ pre.Projects[last.id].status = "Open"
         /\ Projects[last.id].status = "InProgress"

\* the client asked for a second escrow on a project and was refused
C20_Witness ==
    /\ last.op = "initiate_escrow"
    /\ last.result = "NotOpen"
    /\ last.from = Projects[last.id].client
    /\ \E e \in DOMAIN Escrows : Escrows[e].project_id = last.id
    /\ EscrowCount = 2

\* what a call of deposit_funds, release_funds or refund_funds returns and
\* stores, as a function of the stored escrows
Outcome(escrows, c) ==
    LET err == CASE c.op = "deposit_funds" -> DepositErrorIn(escrows, c.from, c.id)
                 [] c.op = "release_funds" -> ReleaseErrorIn(escrows, c.from, c.id, c.arg)
                 [] c.op = "refund_funds"  -> RefundErrorIn(escrows, c.from, c.id)
        new == CASE c.op = "deposit_funds" -> DepositUpdate(escrows[c.id], c.arg)
                 [] c.op = "release_funds" -> ReleaseUpdate(escrows[c.id], c.arg)
                 [] c.op = "refund_funds"  -> RefundUpdate(escrows[c.id])
    IN  [result  |-> err,
         escrows |-> IF err = "Ok" THEN WriteEscrow(escrows, c.id, new) ELSE escrows]

EscrowCallsOn(id) ==
    [op : {"deposit_funds"}, from : Addresses, id : {id}, arg : TwoAmounts]
      \cup [op : {"release_funds"}, from : Addresses, id : {id}, arg : TwoIndexes]
      \cup [op : {"refund_funds"}, from : Addresses, id : {id}, arg : {0}]

\* C18: two calls among deposit_funds, release_funds and refund_funds on
\* different escrow ids, each one atomic step, return the same results and
\* leave the same stored escrows in both orders; Outcome is what a step does.
\* Every value of the stored escrows is first reached by the step that
\* writes it, so the two orders are compared in those states.
C18_DifferentEscrowsCommute ==
    /\ last.op \in EscrowOps =>
         Outcome(pre.Escrows, last) = [result |-> last.result, escrows |-> Escrows]
    /\ (Escrows # pre.Escrows \/ last.op = "none") =>
         \A i, j \in TwoIds :
            i < j =>
              \A a \in EscrowCallsOn(i), b \in EscrowCallsOn(j) :
                 LET a1 == Outcome(Escrows, a)
                     b1 == Outcome(Escrows, b)
                     ab == Outcome(a1.escrows, b)
                     ba == Outcome(b1.escrows, a)
                 IN  /\ ba.result = a1.result
                     /\ ab.result = b1.result
                     /\ ab.escrows = ba.escrows

\* both escrows are stored and a call has just changed one of them
C18_Witness ==
    /\ EscrowCount = 2
    /\ last.op \in EscrowOps
    /\ last.result = "Ok"
    /\ Escrows # pre.Escrows
    /\ \E a \in EscrowCallsOn(1), b \in EscrowCallsOn(2) :
         /\ Outcome(Escrows, a).result = "Ok"
         /\ Outcome(Escrows, b).result = "Ok"
         /\ Outcome(Escrows, a).escrows # Escrows
         /\ Outcome(Escrows, b).escrows # Escrows

\* the escrow records a sequence of successful release_funds calls can store,
\* starting from the records in S
RECURSIVE ReleaseClosure(_)
ReleaseClosure(S) ==
    LET step == {ReleaseUpdate(x[1], x[2]) :
                   x \in {y \in S \X (0..MaxMilestones) : ReleaseErrorOn(y[1], y[2]) = "Ok"}}
    IN  IF step \subseteq S THEN S ELSE ReleaseClosure(S \cup step)

\* positive milestone amounts that sum to total_amount, all completed, and
\* the escrow deposited up to exactly total_amount
NormallyFunded(escrow) ==
    /\ escrow.state = "InProgress"
    /\ escrow.released_amount = escrow.total_amount
    /\ \A i \in DOMAIN escrow.milestones :
         escrow.milestones[i].amount > 0 /\ escrow.milestones[i].completed
    /\ SumOver(escrow.milestones, DOMAIN escrow.milestones) = escrow.total_amount

\* C19: from a normally funded escrow some sequence of release_funds calls
\* by the client ends in the state Completed.
C19_CompletedReachable ==
    \A e \in DOMAIN Escrows :
        NormallyFunded(Escrows[e])
            => \E r \in ReleaseClosure({Escrows[e]}) : r.state = "Completed"
====
